---- MODULE Spec2Model ----
(***************************************************************************)
(* NodeBridge.ListenToLedgerUpdates (pkg/nodebridge/ledger.go): the loop   *)
(* that reads ledger update records from an INX stream, reassembles them   *)
(* into per-milestone batches framed by BEGIN/END markers and hands every  *)
(* completed batch to the caller's consume callback.                       *)
(*                                                                         *)
(* One call of the function is modelled.  The remote node, the transport   *)
(* and the caller are the environment: each stream read returns a record   *)
(* or an error chosen by the environment, the callback returns success or  *)
(* an error chosen by the environment, and the caller may cancel the       *)
(* context at any moment.  PairSpec runs two calls side by side, each on   *)
(* its own stream; WrapSpec feeds one call a batch long enough for the     *)
(* length conversion at the END marker to wrap.                            *)
(***************************************************************************)
EXTENDS Integers, Sequences, FiniteSets, TLC

\* ------------------------------------------------------------------ bounds

\* Most records the stream delivers in one run; after them a read returns
\* an error (io.EOF, Canceled or a transport error).
MaxRecs == 5

\* Marker counts (consumedCount, createdCount) range over 0..MaxCount.
MaxCount == 2

\* Most records of one run that are neither BEGIN, END, Consumed nor Created.
MaxSkips == 1

\* Most records the stream of each call delivers when two calls run at once.
MaxPairRecs == 3

\* The number of values of uint32, scaled down from 2^32.
Uint32Range == 4

\* Milestone indexes carried by markers.
Indexes == {5, 6}

\* The (consumedCount, createdCount) pairs a BEGIN marker declares.
BeginCounts == {<<0, 0>>, <<1, 1>>, <<2, 0>>}

\* Opaque payloads of Consumed (spent) and Created (output) items.
Spents == {"s1", "s2"}
Outputs == {"o1", "o2"}

\* ------------------------------------------------------------------ errors

\* The nil error: success.
NoErr == "nil"

ErrLedgerUpdateTransactionAlreadyInProgress == "ErrLedgerUpdateTransactionAlreadyInProgress"
ErrLedgerUpdateInvalidOperation == "ErrLedgerUpdateInvalidOperation"
ErrLedgerUpdateEndedAbruptly == "ErrLedgerUpdateEndedAbruptly"

\* What the transport can report: io.EOF, a gRPC status Canceled, and other
\* gRPC status errors.
EOF == "io.EOF"
Canceled == "status.Canceled"
TransportErrs == {"status.Unavailable", "status.Internal"}
StreamErrs == {EOF, Canceled} \cup TransportErrs

\* What the consume callback can return besides nil.
ConsumeErrs == {"consumeErrA", "consumeErrB"}

\* errors.Is(err, io.EOF)
IsEOF(e) == e = EOF

\* status.Code(err): OK for nil, the status' code for a status error,
\* Unknown for an error that is no status (io.EOF).
StatusCode(e) ==
    CASE e = NoErr -> "OK"
      [] e = EOF -> "Unknown"
      [] e = Canceled -> "Canceled"
      [] e = "status.Unavailable" -> "Unavailable"
      [] e = "status.Internal" -> "Internal"
      [] OTHER -> "Unknown"

\* ----------------------------------------------------------------- records

\* inx.LedgerUpdate: the op is a BatchMarker, a Consumed item, a Created
\* item, or not set.  Every record has the same fields; those its op does
\* not use hold a filler.
BatchMarker(t, i, c, k) ==
    [op |-> "BatchMarker", markerType |-> t, milestoneIndex |-> i,
     consumedCount |-> c, createdCount |-> k, item |-> "-"]

ConsumedOp(s) ==
    [op |-> "Consumed", markerType |-> "-", milestoneIndex |-> 0,
     consumedCount |-> 0, createdCount |-> 0, item |-> s]

CreatedOp(o) ==
    [op |-> "Created", markerType |-> "-", milestoneIndex |-> 0,
     consumedCount |-> 0, createdCount |-> 0, item |-> o]

\* A record with no op set; also the payload of a read that returned an error.
NoOp ==
    [op |-> "None", markerType |-> "-", milestoneIndex |-> 0,
     consumedCount |-> 0, createdCount |-> 0, item |-> "-"]

Begins == {BatchMarker("BEGIN", i, d[1], d[2]) : i \in Indexes, d \in BeginCounts}
Ends == {BatchMarker("END", i, c, k) : i \in Indexes, c \in 0..MaxCount, k \in 0..MaxCount}
Items == {ConsumedOp(s) : s \in Spents} \cup {CreatedOp(o) : o \in Outputs}

\* Records the loop skips: a marker whose type is neither BEGIN nor END, and
\* a record with no op.
Skipped == {BatchMarker("UNKNOWN", 5, 0, 0), NoOp}

Records == Begins \cup Ends \cup Items \cup Skipped

\* uint32(n) for 0 <= n: n modulo the number of values of the type.  That
\* number is 2^32 in the code; it is scaled down to Uint32Range so that a
\* slice with that many items can be built.  Marker counts stay below it
\* (MaxCount < Uint32Range), and under Spec so does every length: a batch of
\* Uint32Range items takes Uint32Range + 2 records, more than MaxRecs.
Uint32(n) == n % Uint32Range

\* --------------------------------------------------------------- the state

VARIABLES
    pc,            \* where the call is: "open" (before the stream is opened),
                   \* "loop" (top of the for loop), "recv" (inside stream.Recv),
                   \* "recvd" (the read returned), "consume" (inside the
                   \* callback), "done" (returned)
    ctxCancelled,  \* ctx.Err() != nil
    cancelAt,      \* when ctx was cancelled: "-" (not yet), "consume" (while the
                   \* callback was running) or "elsewhere"
    update,        \* the local `update`: NilUpdate or the open LedgerUpdate
    payload,       \* what the last stream.Recv returned
    err,           \*   and its error
    consumeErr,    \* what the last consume call returned
    result,        \* what ListenToLedgerUpdates returned ("none" until it does)
    calls,         \* the batches consume was invoked with, in order
    recvd,         \* every (payload, err) stream.Recv returned, in order
    opens,         \* the error of every n.client.ListenToLedgerUpdates call
                   \* made, in order (NoErr when the stream was opened)
    peer,          \* the locals of the other call of a pair, while it is not
                   \* the one taking steps
    cur            \* which call of the pair the variables above belong to

vars == <<pc, ctxCancelled, cancelAt, update, payload, err, consumeErr, result, calls, recvd, opens, peer, cur>>

\* The locals of the call taking steps, as one record.
Locals ==
    [pc |-> pc, ctxCancelled |-> ctxCancelled, cancelAt |-> cancelAt,
     update |-> update, payload |-> payload, err |-> err,
     consumeErr |-> consumeErr, result |-> result, calls |-> calls,
     recvd |-> recvd, opens |-> opens]

\* var update *LedgerUpdate: nil
NilUpdate == [nil |-> TRUE]

\* &LedgerUpdate{MilestoneIndex: ..., Consumed: make(..., 0), Created: make(..., 0)}
NewUpdate(m) ==
    [MilestoneIndex |-> m.milestoneIndex, Consumed |-> <<>>, Created |-> <<>>]

\* A slip: the new item goes to the front.
AppendConsumed_Prepend(u, p) == [u EXCEPT !.Consumed = <<p.item>> \o @]

\* update.Consumed = append(update.Consumed, op.Consumed)
AppendConsumed(u, p) == [u EXCEPT !.Consumed = Append(@, p.item)]

\* A slip: a Created item lands in the consumed list.
AppendCreated_IntoConsumed(u, p) == [u EXCEPT !.Consumed = Append(@, p.item)]

\* update.Created = append(update.Created, op.Created)
AppendCreated(u, p) == [u EXCEPT !.Created = Append(@, p.item)]

\* A slip: the END marker's index is not compared.
EndedAbruptly_IgnoresIndex(u, m) ==
    \/ Uint32(Len(u.Consumed)) # m.consumedCount
    \/ Uint32(Len(u.Created)) # m.createdCount

\* The END marker's check of the open update (the condition of the `if`
\* that returns ErrLedgerUpdateEndedAbruptly).
EndedAbruptly(u, m) ==
    \/ Uint32(Len(u.Consumed)) # m.consumedCount
    \/ Uint32(Len(u.Created)) # m.createdCount
    \/ u.MilestoneIndex # m.milestoneIndex

\* A slip: the context is never found cancelled.
CtxDone_Never == FALSE

\* ctx.Err() != nil
CtxDone == ctxCancelled

\* A slip: io.EOF is not among the errors that end the loop silently.
BreaksLoop_NotOnEOF(e) == StatusCode(e) = "Canceled"

\* A slip: every error of the read ends the loop silently.
BreaksLoop_AnyError(e) == e # NoErr

\* The loop's first test after a read: the errors that end it silently.
BreaksLoop(e) == IsEOF(e) \/ StatusCode(e) = "Canceled"

Init ==
    /\ pc = "open"
    /\ ctxCancelled = FALSE
    /\ cancelAt = "-"
    /\ update = NilUpdate
    /\ payload = NoOp
    /\ err = NoErr
    /\ consumeErr = NoErr
    /\ result = "none"
    /\ calls = <<>>
    /\ recvd = <<>>
    /\ opens = <<>>
    /\ peer = Locals
    /\ cur = 1

\* return e
Return(e) ==
    /\ pc' = "done"
    /\ result' = e

\* The caller cancels ctx.
Cancel ==
    /\ pc # "done"
    /\ ~ctxCancelled
    /\ ctxCancelled' = TRUE
    /\ cancelAt' = IF pc = "consume" THEN "consume" ELSE "elsewhere"
    /\ UNCHANGED <<pc, update, payload, err, consumeErr, result, calls, recvd, opens, peer, cur>>

\* What opening the stream can return: nil, or an error.
OpenErrs == {NoErr} \cup TransportErrs \cup {Canceled}

\* A slip: the error of opening the stream is dropped and the loop entered.
OpenStream_IgnoresError ==
    /\ pc = "open"
    /\ \E e \in OpenErrs : opens' = Append(opens, e)
    /\ pc' = "loop"
    /\ UNCHANGED <<ctxCancelled, cancelAt, update, payload, err, consumeErr, result, calls, recvd, peer, cur>>

\* stream, err := n.client.ListenToLedgerUpdates(ctx, req); if err != nil { return err }
OpenStream ==
    /\ pc = "open"
    /\ \E e \in OpenErrs :
         /\ opens' = Append(opens, e)
         /\ IF e # NoErr
            THEN Return(e)
            ELSE pc' = "loop" /\ UNCHANGED result
    /\ UNCHANGED <<ctxCancelled, cancelAt, update, payload, err, consumeErr, calls, recvd, peer, cur>>

\* How many skipped records the stream has delivered.
NumSkipped(h) == Cardinality({n \in 1..Len(h) : h[n].err = NoErr /\ h[n].payload \in Skipped})

\* What a stream read can return: a record, or an error with no record.
Outcomes ==
    {[payload |-> r, err |-> NoErr] :
        r \in IF Len(recvd) >= MaxRecs THEN {}
              ELSE IF NumSkipped(recvd) < MaxSkips THEN Records
              ELSE Records \ Skipped}
    \cup {[payload |-> NoOp, err |-> e] : e \in StreamErrs}

\* for { payload, err := stream.Recv(): the read is issued.
CallRecv ==
    /\ pc = "loop"
    /\ pc' = "recv"
    /\ UNCHANGED <<ctxCancelled, cancelAt, update, payload, err, consumeErr, result, calls, recvd, opens, peer, cur>>

\* payload, err := stream.Recv(): the read returns one of the outcomes S.
RecvFrom(S) ==
    /\ pc = "recv"
    /\ \E o \in S :
         /\ payload' = o.payload
         /\ err' = o.err
         /\ recvd' = Append(recvd, o)
    /\ pc' = "recvd"
    /\ UNCHANGED <<ctxCancelled, cancelAt, update, consumeErr, result, calls, opens, peer, cur>>

Recv == RecvFrom(Outcomes)

\* A slip: a BEGIN marker must carry an index above the last delivered one.
OnBegin_RequiresIncreasing ==
    IF update # NilUpdate
    THEN Return(ErrLedgerUpdateTransactionAlreadyInProgress) /\ UNCHANGED <<update, calls>>
    ELSE IF calls # <<>> /\ payload.milestoneIndex <= calls[Len(calls)].MilestoneIndex
    THEN Return(ErrLedgerUpdateInvalidOperation) /\ UNCHANGED <<update, calls>>
    ELSE /\ update' = NewUpdate(payload)
         /\ pc' = "loop"
         /\ UNCHANGED <<result, calls>>

\* A slip: a BEGIN marker met with a batch open starts over.
OnBegin_Restarts ==
    /\ update' = NewUpdate(payload)
    /\ pc' = "loop"
    /\ UNCHANGED <<result, calls>>

\* case inx.LedgerUpdate_Marker_BEGIN
OnBegin ==
    IF update # NilUpdate
    THEN Return(ErrLedgerUpdateTransactionAlreadyInProgress) /\ UNCHANGED <<update, calls>>
    ELSE /\ update' = NewUpdate(payload)
         /\ pc' = "loop"
         /\ UNCHANGED <<result, calls>>

\* A slip: the callback is started and not waited for (go consume(update)).
OnEnd_DoesNotWait ==
    IF update = NilUpdate
    THEN Return(ErrLedgerUpdateInvalidOperation) /\ UNCHANGED <<update, calls>>
    ELSE IF EndedAbruptly(update, payload)
    THEN Return(ErrLedgerUpdateEndedAbruptly) /\ UNCHANGED <<update, calls>>
    ELSE /\ calls' = Append(calls, update)
         /\ update' = NilUpdate
         /\ pc' = "loop"
         /\ UNCHANGED result

\* case inx.LedgerUpdate_Marker_END, up to the call of consume
OnEnd ==
    IF update = NilUpdate
    THEN Return(ErrLedgerUpdateInvalidOperation) /\ UNCHANGED <<update, calls>>
    ELSE IF EndedAbruptly(update, payload)
    THEN Return(ErrLedgerUpdateEndedAbruptly) /\ UNCHANGED <<update, calls>>
    ELSE /\ calls' = Append(calls, update)
         /\ pc' = "consume"
         /\ UNCHANGED <<update, result>>

\* A slip: the BEGIN marker's consumedCount caps the consumed items of its
\* batch.
OnConsumed_CappedByBegin ==
    LET begins == {p \in 1..Len(recvd) :
                      /\ recvd[p].err = NoErr
                      /\ recvd[p].payload.op = "BatchMarker"
                      /\ recvd[p].payload.markerType = "BEGIN"}
        last == CHOOSE p \in begins : \A q \in begins : q <= p
    IN  IF update = NilUpdate
        THEN Return(ErrLedgerUpdateInvalidOperation) /\ UNCHANGED <<update, calls>>
        ELSE IF Len(update.Consumed) >= recvd[last].payload.consumedCount
        THEN Return(ErrLedgerUpdateEndedAbruptly) /\ UNCHANGED <<update, calls>>
        ELSE /\ update' = AppendConsumed(update, payload)
             /\ pc' = "loop"
             /\ UNCHANGED <<result, calls>>

\* A slip: a Consumed item met with no batch open is dropped.
OnConsumed_SkipsOrphan ==
    IF update = NilUpdate
    THEN pc' = "loop" /\ UNCHANGED <<update, result, calls>>
    ELSE /\ update' = AppendConsumed(update, payload)
         /\ pc' = "loop"
         /\ UNCHANGED <<result, calls>>

\* case *inx.LedgerUpdate_Consumed
OnConsumed ==
    IF update = NilUpdate
    THEN Return(ErrLedgerUpdateInvalidOperation) /\ UNCHANGED <<update, calls>>
    ELSE /\ update' = AppendConsumed(update, payload)
         /\ pc' = "loop"
         /\ UNCHANGED <<result, calls>>

\* case *inx.LedgerUpdate_Created
OnCreated ==
    IF update = NilUpdate
    THEN Return(ErrLedgerUpdateInvalidOperation) /\ UNCHANGED <<update, calls>>
    ELSE /\ update' = AppendCreated(update, payload)
         /\ pc' = "loop"
         /\ UNCHANGED <<result, calls>>

\* A slip: a record no case matches is a protocol violation.
OnOther_InvalidOperation ==
    /\ Return(ErrLedgerUpdateInvalidOperation)
    /\ UNCHANGED <<update, calls>>

\* A slip: a record no case matches ends the call (default: return nil).
OnOther_Stops ==
    /\ Return(NoErr)
    /\ UNCHANGED <<update, calls>>

\* No case of the switch matches: the loop goes on.
OnOther ==
    /\ pc' = "loop"
    /\ UNCHANGED <<update, result, calls>>

\* switch op := payload.GetOp().(type)
Dispatch ==
    CASE payload.op = "BatchMarker" /\ payload.markerType = "BEGIN" -> OnBegin
      [] payload.op = "BatchMarker" /\ payload.markerType = "END" -> OnEnd
      [] payload.op = "Consumed" -> OnConsumed
      [] payload.op = "Created" -> OnCreated
      [] OTHER -> OnOther

\* A slip: the error of the read is tested ahead of the context.
Process_ErrBeforeCtx ==
    /\ pc = "recvd"
    /\ IF BreaksLoop(err)
       THEN Return(NoErr) /\ UNCHANGED <<update, calls>>
       ELSE IF err # NoErr
       THEN Return(err) /\ UNCHANGED <<update, calls>>
       ELSE IF CtxDone
       THEN Return(NoErr) /\ UNCHANGED <<update, calls>>
       ELSE Dispatch
    /\ UNCHANGED <<ctxCancelled, cancelAt, payload, err, consumeErr, recvd, opens, peer, cur>>

\* The loop body after the read: the three tests of err and ctx, then the
\* switch on the record.
Process ==
    /\ pc = "recvd"
    /\ IF BreaksLoop(err)
       THEN Return(NoErr) /\ UNCHANGED <<update, calls>>
       ELSE IF CtxDone
       THEN Return(NoErr) /\ UNCHANGED <<update, calls>>
       ELSE IF err # NoErr
       THEN Return(err) /\ UNCHANGED <<update, calls>>
       ELSE Dispatch
    /\ UNCHANGED <<ctxCancelled, cancelAt, payload, err, consumeErr, recvd, opens, peer, cur>>

\* A slip: `update = nil` is left out after a successful callback.
ConsumeReturn_KeepsUpdate ==
    /\ pc = "consume"
    /\ \E e \in {NoErr} \cup ConsumeErrs :
         /\ consumeErr' = e
         /\ IF e # NoErr
            THEN Return(e)
            ELSE pc' = "loop" /\ UNCHANGED result
    /\ UNCHANGED <<ctxCancelled, cancelAt, update, payload, err, calls, recvd, opens, peer, cur>>

\* A slip: a context cancelled during the callback overrides what the
\* callback returned.
ConsumeReturn_CancelWins ==
    /\ pc = "consume"
    /\ \E e \in {NoErr} \cup ConsumeErrs :
         /\ consumeErr' = e
         /\ IF ctxCancelled
            THEN Return(NoErr) /\ UNCHANGED update
            ELSE IF e # NoErr
            THEN Return(e) /\ UNCHANGED update
            ELSE /\ update' = NilUpdate
                 /\ pc' = "loop"
                 /\ UNCHANGED result
    /\ UNCHANGED <<ctxCancelled, cancelAt, payload, err, calls, recvd, opens, peer, cur>>

\* A slip: the callback's error is dropped and the loop goes on.
ConsumeReturn_IgnoresError ==
    /\ pc = "consume"
    /\ \E e \in {NoErr} \cup ConsumeErrs :
         /\ consumeErr' = e
         /\ update' = NilUpdate
         /\ pc' = "loop"
         /\ UNCHANGED result
    /\ UNCHANGED <<ctxCancelled, cancelAt, payload, err, calls, recvd, opens, peer, cur>>

\* if err := consume(update); err != nil { return err }; update = nil
ConsumeReturn ==
    /\ pc = "consume"
    /\ \E e \in {NoErr} \cup ConsumeErrs :
         /\ consumeErr' = e
         /\ IF e # NoErr
            THEN Return(e) /\ UNCHANGED update
            ELSE /\ update' = NilUpdate
                 /\ pc' = "loop"
                 /\ UNCHANGED result
    /\ UNCHANGED <<ctxCancelled, cancelAt, payload, err, calls, recvd, opens, peer, cur>>

Next ==
    \/ Cancel
    \/ OpenStream
    \/ CallRecv
    \/ Recv
    \/ Process
    \/ ConsumeReturn

Spec == Init /\ [][Next]_vars

\* The call's own steps keep being taken (the goroutine runs), the stream
\* answers every read (a record, or the error that ends it) and the callback
\* returns from every invocation.  The caller need not ever cancel.
Fairness ==
    /\ WF_vars(OpenStream)
    /\ WF_vars(CallRecv)
    /\ WF_vars(Recv)
    /\ WF_vars(Process)
    /\ WF_vars(ConsumeReturn)

FairSpec == Spec /\ Fairness

\* ------------------------------------------------------ two calls at once

\* What a read of a call of the pair can return: up to MaxPairRecs records
\* of batches 5 and 6, then the end of the stream.
PairOutcomes ==
    {[payload |-> r, err |-> NoErr] :
        r \in IF Len(recvd) >= MaxPairRecs THEN {}
              ELSE {BatchMarker("BEGIN", 5, 0, 0), BatchMarker("BEGIN", 6, 0, 0),
                    ConsumedOp("s1"),
                    BatchMarker("END", 5, 1, 0), BatchMarker("END", 6, 0, 0)}}
    \cup {[payload |-> NoOp, err |-> EOF]}

PairRecv == RecvFrom(PairOutcomes)

\* A slip: update is one variable for both calls (a field of the NodeBridge
\* or a package variable in place of the local of line 38).
Switch_SharesUpdate ==
    /\ peer' = Locals
    /\ cur' = 3 - cur
    /\ pc' = peer.pc
    /\ ctxCancelled' = peer.ctxCancelled
    /\ cancelAt' = peer.cancelAt
    /\ payload' = peer.payload
    /\ err' = peer.err
    /\ consumeErr' = peer.consumeErr
    /\ result' = peer.result
    /\ calls' = peer.calls
    /\ recvd' = peer.recvd
    /\ opens' = peer.opens
    /\ UNCHANGED update

\* The scheduler passes from one call to the other.  Each call has its own
\* ctx, stream, update, payload and err, all of them locals of its
\* invocation: the call that stops taking steps keeps its locals, and the
\* one that goes on finds its own as it left them.
Switch ==
    /\ peer' = Locals
    /\ cur' = 3 - cur
    /\ pc' = peer.pc
    /\ ctxCancelled' = peer.ctxCancelled
    /\ cancelAt' = peer.cancelAt
    /\ update' = peer.update
    /\ payload' = peer.payload
    /\ err' = peer.err
    /\ consumeErr' = peer.consumeErr
    /\ result' = peer.result
    /\ calls' = peer.calls
    /\ recvd' = peer.recvd
    /\ opens' = peer.opens

PairNext ==
    \/ Cancel
    \/ OpenStream
    \/ CallRecv
    \/ PairRecv
    \/ Process
    \/ ConsumeReturn
    \/ Switch

PairSpec == Init /\ [][PairNext]_vars

\* ------------------------------------------------------ one very long batch

\* A stream that can carry one batch of Uint32Range items and its markers:
\* the BEGIN marker of batch 5, Consumed and Created items, END markers of
\* batch 5 declaring no item or one consumed item, and the end of the stream.
WrapOutcomes ==
    {[payload |-> r, err |-> NoErr] :
        r \in IF Len(recvd) >= Uint32Range + 2 THEN {}
              ELSE {BatchMarker("BEGIN", 5, 0, 0),
                    ConsumedOp("s1"), CreatedOp("o1"),
                    BatchMarker("END", 5, 0, 0), BatchMarker("END", 5, 1, 0)}}
    \cup {[payload |-> NoOp, err |-> EOF]}

WrapRecv == RecvFrom(WrapOutcomes)

WrapNext ==
    \/ Cancel
    \/ OpenStream
    \/ CallRecv
    \/ WrapRecv
    \/ Process
    \/ ConsumeReturn

WrapSpec == Init /\ [][WrapNext]_vars

\* ------------------------------------------------- the stream, as received

\* A read that returned record r / error e.
Got(r) == [payload |-> r, err |-> NoErr]
Failed(e) == [payload |-> NoOp, err |-> e]

IsBegin(r) == r.op = "BatchMarker" /\ r.markerType = "BEGIN"
IsEnd(r) == r.op = "BatchMarker" /\ r.markerType = "END"
IsConsumed(r) == r.op = "Consumed"
IsCreated(r) == r.op = "Created"

\* The stream h is BEGIN(i,c,k), c Consumed items, k Created items,
\* END(i,c,k) and then end-of-stream.
IsSingleBatchStream(h, i, c, k) ==
    /\ Len(h) = c + k + 3
    /\ h[1] = Got(BatchMarker("BEGIN", i, c, k))
    /\ \A n \in 2..(c + 1) : h[n].err = NoErr /\ IsConsumed(h[n].payload)
    /\ \A n \in (c + 2)..(c + k + 1) : h[n].err = NoErr /\ IsCreated(h[n].payload)
    /\ h[c + k + 2] = Got(BatchMarker("END", i, c, k))
    /\ h[c + k + 3] = Failed(EOF)

\* The batch that stream carries: its items in arrival order.
SingleBatch(h, i, c, k) ==
    [MilestoneIndex |-> i,
     Consumed |-> [n \in 1..c |-> h[n + 1].payload.item],
     Created |-> [n \in 1..k |-> h[n + c + 1].payload.item]]

\* ------------------------------------------------------------------ claims

\* C1: when the stream delivers BEGIN(idx,c,k), c Consumed items, k Created
\* items, END(idx,c,k) and end-of-stream, the context is never cancelled and
\* the callback succeeds, the call has returned success after invoking the
\* callback exactly once, with the batch of index idx whose consumed and
\* created sequences are the c and k payloads in arrival order.
C1_SingleBatchDelivered ==
    [](
    \A i \in Indexes, c \in 0..MaxCount, k \in 0..MaxCount :
        (/\ pc = "done"
         /\ ~ctxCancelled
         /\ consumeErr = NoErr
         /\ IsSingleBatchStream(recvd, i, c, k))
        => /\ result = NoErr
           /\ calls = <<SingleBatch(recvd, i, c, k)>>
    )

\* C1 witness: BEGIN(5,2,0), Consumed s2, Consumed s1, END(5,2,0), EOF was
\* consumed and the batch <<s2, s1>> delivered.
C1_Witness ==
    /\ pc = "done"
    /\ ~ctxCancelled
    /\ IsSingleBatchStream(recvd, 5, 2, 0)
    /\ result = NoErr
    /\ calls = <<[MilestoneIndex |-> 5, Consumed |-> <<"s2", "s1">>, Created |-> <<>>]>>

\* How many of the reads in recvd the loop body has gone through: all of
\* them, but the last one while the read has just returned, and but a last
\* one that returned an error.
NumProcessed ==
    IF recvd # <<>> /\ (pc = "recvd" \/ recvd[Len(recvd)].err # NoErr)
    THEN Len(recvd) - 1
    ELSE Len(recvd)

\* The first n reads of h, read as consecutive well-formed batches: ok says
\* they are (every record inside its BEGIN .. END frame, every END carrying
\* its BEGIN's index and the counts of the items in between); batches lists
\* the closed batches in the order of their END markers; open says a BEGIN
\* is not closed yet, and cur holds what arrived since that BEGIN.
RECURSIVE WellFormed(_, _)
WellFormed(h, n) ==
    IF n = 0
    THEN [ok |-> TRUE, batches |-> <<>>, open |-> FALSE, cur |-> NilUpdate]
    ELSE LET w == WellFormed(h, n - 1)
             r == h[n].payload
             bad == [w EXCEPT !.ok = FALSE]
         IN  IF ~w.ok \/ h[n].err # NoErr THEN bad
             ELSE IF IsBegin(r)
             THEN IF w.open THEN bad
                  ELSE [w EXCEPT !.open = TRUE,
                                 !.cur = [MilestoneIndex |-> r.milestoneIndex,
                                          Consumed |-> <<>>, Created |-> <<>>]]
             ELSE IF IsConsumed(r)
             THEN IF ~w.open THEN bad
                  ELSE [w EXCEPT !.cur.Consumed = Append(@, r.item)]
             ELSE IF IsCreated(r)
             THEN IF ~w.open THEN bad
                  ELSE [w EXCEPT !.cur.Created = Append(@, r.item)]
             ELSE IF IsEnd(r)
             THEN IF \/ ~w.open
                     \/ w.cur.MilestoneIndex # r.milestoneIndex
                     \/ Len(w.cur.Consumed) # r.consumedCount
                     \/ Len(w.cur.Created) # r.createdCount
                  THEN bad
                  ELSE [w EXCEPT !.open = FALSE, !.cur = NilUpdate,
                                 !.batches = Append(@, w.cur)]
             ELSE bad

\* C2: while the records gone through so far form consecutive well-formed
\* batches and the context is not cancelled, the callback has been invoked
\* once per closed batch, in the order of the END markers, each time with
\* exactly the items between that batch's BEGIN and END; between batches
\* (the callback returned success) no accumulator is kept, and inside a
\* batch the accumulator holds only the items since its own BEGIN.
C2_BatchesDeliveredInOrder ==
    [](
    LET w == WellFormed(recvd, NumProcessed)
    IN  (pc # "open" /\ ~ctxCancelled /\ w.ok)
        => /\ calls = w.batches
           /\ (w.open => update = w.cur)
           /\ ((~w.open /\ pc \in {"loop", "recv", "recvd"}) => update = NilUpdate)
    )

\* C2 witness: batch 5 with one consumed item, then the empty batch 6, both
\* delivered, in that order.
C2_Witness ==
    /\ pc = "loop"
    /\ ~ctxCancelled
    /\ WellFormed(recvd, NumProcessed).ok
    /\ calls = <<[MilestoneIndex |-> 5, Consumed |-> <<"s1">>, Created |-> <<>>],
                 [MilestoneIndex |-> 6, Consumed |-> <<>>, Created |-> <<>>]>>
    /\ update = NilUpdate

\* How many END markers the stream has delivered.
NumEnds(h) == Cardinality({n \in 1..Len(h) : h[n].err = NoErr /\ IsEnd(h[n].payload)})

\* C3: once the callback has returned an error, the call has returned that
\* very error; the last read the stream ever served is the END marker of
\* the batch the callback failed on, and that batch is the last one the
\* callback was invoked with (one invocation per END marker read).
C3_CallbackErrorStops ==
    consumeErr # NoErr
    => /\ pc = "done"
       /\ result = consumeErr
       /\ recvd # <<>>
       /\ recvd[Len(recvd)].err = NoErr
       /\ IsEnd(recvd[Len(recvd)].payload)
       /\ recvd[Len(recvd)].payload = payload
       /\ calls # <<>>
       /\ calls[Len(calls)] = update
       /\ ~EndedAbruptly(update, payload)
       /\ Len(calls) = NumEnds(recvd)

\* C3 witness: the callback failed with consumeErrB on the first batch and
\* the call returned consumeErrB.
C3_Witness ==
    /\ pc = "done"
    /\ consumeErr = "consumeErrB"
    /\ result = "consumeErrB"
    /\ calls = <<[MilestoneIndex |-> 5, Consumed |-> <<>>, Created |-> <<"o1">>]>>
    /\ Len(recvd) = 3

\* C4 as stated: a read that reported a transport error (neither io.EOF nor
\* Canceled) makes the call return that error, whatever the state of the
\* context.
C4_TransportErrorAlwaysReturned ==
    (pc = "done" /\ err \in TransportErrs) => result = err

\* C4 amended: a read that reported a transport error makes the call return
\* that very error, with a batch open or not, when the context is not
\* cancelled at the test that follows the read; when it is cancelled, the
\* call returns success and the transport error is dropped.
C4_TransportErrorReturnedUnlessCancelled ==
    (pc = "done" /\ err \in TransportErrs)
    => result = IF ctxCancelled THEN NoErr ELSE err

\* C4 witness: status.Internal reported while a batch is open and the
\* context is live, and returned.
C4_Witness ==
    /\ pc = "done"
    /\ err = "status.Internal"
    /\ ~ctxCancelled
    /\ update # NilUpdate
    /\ result = "status.Internal"

\* This step takes the record just read into the switch: the read returned no
\* error and the context is not cancelled at the test before the switch.
Dispatches == pc = "recvd" /\ pc' # "recvd" /\ err = NoErr /\ ~ctxCancelled

\* The END markers read so far, in order.
EndsRead == SelectSeq(recvd, LAMBDA o : o.err = NoErr /\ IsEnd(o.payload))

\* Batch u disagrees with END marker m on a count or on the index.
Disagrees(u, m) ==
    \/ Len(u.Consumed) # m.consumedCount
    \/ Len(u.Created) # m.createdCount
    \/ u.MilestoneIndex # m.milestoneIndex

\* C5: an END marker taken into the switch while a batch is open that
\* disagrees with the accumulated batch on the consumed count, the created
\* count or the index makes the call return ErrLedgerUpdateEndedAbruptly
\* without invoking the callback; and the n-th batch handed to the callback
\* agrees with the n-th END marker read on both counts and on the index.
\* It holds under Spec, where every length is below Uint32Range, and fails
\* under WrapSpec on the batch of Uint32Range items (see C20).
C5_EndMismatchRejected ==
    /\ [](/\ Len(calls) <= Len(EndsRead)
          /\ \A n \in 1..Len(calls) : ~Disagrees(calls[n], EndsRead[n].payload))
    /\ [][(Dispatches /\ IsEnd(payload) /\ update # NilUpdate /\ Disagrees(update, payload))
          => (pc' = "done" /\ result' = ErrLedgerUpdateEndedAbruptly /\ calls' = calls)]_vars

\* C5 witness: END(5,1,0) closed a batch opened for index 6 that holds one
\* consumed item (only the index disagrees), and the call returned
\* ErrLedgerUpdateEndedAbruptly with no callback.
C5_Witness ==
    /\ pc = "done"
    /\ ~ctxCancelled
    /\ payload = BatchMarker("END", 5, 1, 0)
    /\ update = [MilestoneIndex |-> 6, Consumed |-> <<"s1">>, Created |-> <<>>]
    /\ result = ErrLedgerUpdateEndedAbruptly
    /\ calls = <<>>

\* C6: a BEGIN marker taken into the switch while a batch is open makes the
\* call return ErrLedgerUpdateTransactionAlreadyInProgress without invoking
\* the callback; once it has returned that error every callback invocation
\* belongs to an END marker read earlier, so neither the open batch nor the
\* new one was delivered.
C6_SecondBeginRejected ==
    /\ [](result = ErrLedgerUpdateTransactionAlreadyInProgress
          => (pc = "done" /\ IsBegin(payload) /\ update # NilUpdate
              /\ Len(calls) = Len(EndsRead)))
    /\ [][(Dispatches /\ IsBegin(payload) /\ update # NilUpdate)
          => (/\ pc' = "done"
              /\ result' = ErrLedgerUpdateTransactionAlreadyInProgress
              /\ calls' = calls)]_vars

\* C6 witness: BEGIN(6,0,0) arrived while batch 5 was open with one item.
C6_Witness ==
    /\ pc = "done"
    /\ result = ErrLedgerUpdateTransactionAlreadyInProgress
    /\ update = [MilestoneIndex |-> 5, Consumed |-> <<"s1">>, Created |-> <<>>]
    /\ payload = BatchMarker("BEGIN", 6, 0, 0)
    /\ calls = <<>>

\* C7: a Consumed item, a Created item or an END marker (whatever it
\* declares) taken into the switch while no batch is open makes the call
\* return ErrLedgerUpdateInvalidOperation without invoking the callback.
C7_OrphanRejected ==
    [][(Dispatches /\ update = NilUpdate
        /\ (IsConsumed(payload) \/ IsCreated(payload) \/ IsEnd(payload)))
       => (/\ pc' = "done"
           /\ result' = ErrLedgerUpdateInvalidOperation
           /\ calls' = calls)]_vars

\* C7 witness: after batch 5 was delivered, a Consumed item arrived with no
\* batch open.
C7_Witness ==
    /\ pc = "done"
    /\ result = ErrLedgerUpdateInvalidOperation
    /\ update = NilUpdate
    /\ IsConsumed(payload)
    /\ ~ctxCancelled
    /\ calls = <<[MilestoneIndex |-> 5, Consumed |-> <<>>, Created |-> <<>>]>>

\* C8: a read that reports io.EOF makes the call return success without
\* invoking the callback, with a batch open or not; the open batch is not
\* delivered.
C8_EndOfStreamIsSuccess ==
    [][(pc = "recvd" /\ pc' # "recvd" /\ IsEOF(err))
       => (pc' = "done" /\ result' = NoErr /\ calls' = calls)]_vars

\* C8 witness: io.EOF arrived while batch 5 was open with one item; success,
\* no callback.
C8_Witness ==
    /\ pc = "done"
    /\ err = EOF
    /\ ~ctxCancelled
    /\ update = [MilestoneIndex |-> 5, Consumed |-> <<"s1">>, Created |-> <<>>]
    /\ result = NoErr
    /\ calls = <<>>

\* C9: when the read reports the Canceled status, or the context is
\* cancelled at the test after the read, the call returns success, with a
\* batch open or not, without invoking the callback and without a protocol
\* error.
C9_CancellationIsSuccess ==
    [][(pc = "recvd" /\ pc' # "recvd" /\ (StatusCode(err) = "Canceled" \/ ctxCancelled))
       => (pc' = "done" /\ result' = NoErr /\ calls' = calls)]_vars

\* C9 witness: the context was cancelled while batch 5 was open and a second
\* BEGIN had been read: success, no callback, no protocol error.
C9_Witness ==
    /\ pc = "done"
    /\ ctxCancelled
    /\ err = NoErr
    /\ IsBegin(payload)
    /\ update = [MilestoneIndex |-> 5, Consumed |-> <<"s1">>, Created |-> <<>>]
    /\ result = NoErr
    /\ calls = <<>>

\* Where in recvd the n-th END marker is (0 when there are fewer).
EndPosition(n) ==
    LET at == {p \in 1..Len(recvd) :
                 /\ recvd[p].err = NoErr
                 /\ IsEnd(recvd[p].payload)
                 /\ Len(SelectSeq(SubSeq(recvd, 1, p),
                                  LAMBDA o : o.err = NoErr /\ IsEnd(o.payload))) = n}
    IN  IF at = {} THEN 0 ELSE CHOOSE p \in at : TRUE

\* C10 as stated: cancellation prevents the next stream read; when the
\* context was cancelled while the callback was running, no stream read is
\* issued after the callback returns.
C10_CancelPreventsNextRead ==
    [][(cancelAt = "consume" /\ pc # "recv") => pc' # "recv"]_vars

\* C10 amended: the context is tested after a stream read returns and before
\* the record is taken into the switch.  A context cancelled while the
\* callback is running does not interrupt it: the callback returns, its error
\* is returned as it is, and after its success the loop issues one more
\* stream read; whatever a read returns with the context cancelled, the call
\* then returns success without taking the record into the switch and
\* without invoking the callback; so at most one read follows the END marker
\* of the batch whose callback was running.
C10_CancelStopsAfterNextRead ==
    /\ [](cancelAt = "consume"
          => (calls # <<>> /\ Len(recvd) <= EndPosition(Len(calls)) + 1))
    /\ [][(pc = "consume" /\ ctxCancelled /\ pc' # "consume")
          => \/ consumeErr' = NoErr /\ pc' = "loop" /\ result' = "none"
             \/ consumeErr' \in ConsumeErrs /\ pc' = "done" /\ result' = consumeErr']_vars
    /\ [][(pc = "loop" /\ ctxCancelled /\ pc' # "loop") => pc' = "recv"]_vars
    /\ [][(pc = "recvd" /\ ctxCancelled /\ pc' # "recvd")
          => (pc' = "done" /\ result' = NoErr /\ calls' = calls /\ update' = update)]_vars

\* C10 witness: the context was cancelled while the callback ran for batch 5;
\* the callback returned, one more read was issued and returned BEGIN(6,0,0),
\* which was dropped, and the call returned success.
C10_Witness ==
    /\ pc = "done"
    /\ cancelAt = "consume"
    /\ consumeErr = NoErr
    /\ calls = <<[MilestoneIndex |-> 5, Consumed |-> <<>>, Created |-> <<>>]>>
    /\ Len(recvd) = 3
    /\ recvd[3] = Got(BatchMarker("BEGIN", 6, 0, 0))
    /\ update = NilUpdate
    /\ result = NoErr

\* C11: a callback invocation puts the call inside the callback, and until
\* the callback returns nothing else happens in the call: no stream read is
\* issued or returns, and no other callback is invoked; the step that leaves
\* the callback is its return.
C11_CallbackRunsAlone ==
    /\ [][calls' # calls
          => (pc = "recvd" /\ pc' = "consume" /\ Len(calls') = Len(calls) + 1)]_vars
    /\ [][pc = "consume"
          => (/\ calls' = calls
              /\ recvd' = recvd
              /\ pc' \in {"consume", "loop", "done"})]_vars
    /\ [][pc' = "recv" => pc \in {"loop", "recv"}]_vars

\* C11 witness: the second callback is running; the first one returned before
\* the reads that made the second batch were issued.
C11_Witness ==
    /\ pc = "consume"
    /\ Len(calls) = 2
    /\ Len(recvd) = 4
    /\ consumeErr = NoErr

\* Where in the first n reads of h the last BEGIN marker is (0 when none).
LastBegin(h, n) ==
    LET at == {p \in 1..n : h[p].err = NoErr /\ IsBegin(h[p].payload)}
    IN  IF at = {} THEN 0 ELSE CHOOSE p \in at : \A q \in at : q <= p

\* The items of the reads b+1 .. n of h whose op is kind, in order.
RECURSIVE ItemsBetween(_, _, _, _)
ItemsBetween(h, b, n, kind) ==
    IF n <= b THEN <<>>
    ELSE IF h[n].err = NoErr /\ h[n].payload.op = kind
         THEN Append(ItemsBetween(h, b, n - 1, kind), h[n].payload.item)
         ELSE ItemsBetween(h, b, n - 1, kind)

\* C12: while the loop runs there is one accumulator or none; an open one
\* carries the index of the last BEGIN marker gone through and, in arrival
\* order, exactly the Consumed and the Created payloads gone through since
\* that BEGIN; with no BEGIN gone through yet none is open.
C12_AccumulatorIsSinceLastBegin ==
    [](
    pc \in {"loop", "recv", "recvd", "consume"}
    => LET n == NumProcessed
           b == LastBegin(recvd, n)
       IN  /\ b = 0 => update = NilUpdate
           /\ update # NilUpdate
              => /\ b > 0
                 /\ update.MilestoneIndex = recvd[b].payload.milestoneIndex
                 /\ update.Consumed = ItemsBetween(recvd, b, n, "Consumed")
                 /\ update.Created = ItemsBetween(recvd, b, n, "Created")
    )

\* C12 witness: after batch 5 was delivered, batch 6 is open with one
\* consumed and one created item and nothing of batch 5.
C12_Witness ==
    /\ pc = "loop"
    /\ Len(calls) = 1
    /\ calls[1].MilestoneIndex = 5
    /\ update = [MilestoneIndex |-> 6, Consumed |-> <<"s2">>, Created |-> <<"o1">>]

\* The errors of a protocol violation.
ProtocolErrs ==
    {ErrLedgerUpdateTransactionAlreadyInProgress,
     ErrLedgerUpdateInvalidOperation,
     ErrLedgerUpdateEndedAbruptly}

\* C13: batch indices need not grow.  When the records gone through are a
\* well-formed batch followed by a well-formed batch, or the well-formed
\* beginning of one, that carries the same index as the first or a smaller
\* one, no protocol error is returned, the second batch is accumulated under
\* its own index, and the callback has been invoked with every closed batch
\* in stream order.
C13_IndexOrderIsFree ==
    [](
    LET w == WellFormed(recvd, NumProcessed)
        second == IF Len(w.batches) >= 2 THEN w.batches[2] ELSE w.cur
    IN  (/\ pc # "open"
         /\ ~ctxCancelled
         /\ w.ok
         /\ Len(w.batches) >= 1
         /\ (Len(w.batches) >= 2 \/ w.open)
         /\ second.MilestoneIndex <= w.batches[1].MilestoneIndex)
        => /\ result \notin ProtocolErrs
           /\ calls = w.batches
           /\ (w.open => update = w.cur)
    )

\* C13 witness: batch 6 was delivered, then batch 5.
C13_Witness ==
    /\ pc = "loop"
    /\ ~ctxCancelled
    /\ Len(calls) = 2
    /\ calls[1].MilestoneIndex = 6
    /\ calls[2].MilestoneIndex = 5
    /\ update = NilUpdate

\* C13, second case: batch 5 was delivered twice in a row.
C13_WitnessEqual ==
    /\ pc = "loop"
    /\ ~ctxCancelled
    /\ Len(calls) = 2
    /\ calls[1].MilestoneIndex = 5
    /\ calls[2].MilestoneIndex = 5

\* Why a call that has returned did so: the stream could not be opened, the
\* stream ended, the call was cancelled, the transport failed, the stream
\* broke the protocol, or the callback failed.
ReturnCause ==
    \/ recvd = <<>> /\ result \in TransportErrs \cup {Canceled}
    \/ recvd # <<>> /\ err = EOF /\ result = NoErr
    \/ recvd # <<>> /\ (err = Canceled \/ ctxCancelled) /\ result = NoErr
    \/ recvd # <<>> /\ err \in TransportErrs /\ result = err
    \/ /\ recvd # <<>> /\ err = NoErr
       /\ result = ErrLedgerUpdateTransactionAlreadyInProgress
       /\ IsBegin(payload) /\ update # NilUpdate
    \/ /\ recvd # <<>> /\ err = NoErr
       /\ result = ErrLedgerUpdateInvalidOperation
       /\ (IsEnd(payload) \/ IsConsumed(payload) \/ IsCreated(payload))
       /\ update = NilUpdate
    \/ /\ recvd # <<>> /\ err = NoErr
       /\ result = ErrLedgerUpdateEndedAbruptly
       /\ IsEnd(payload) /\ update # NilUpdate /\ Disagrees(update, payload)
    \/ /\ recvd # <<>> /\ err = NoErr
       /\ result \in ConsumeErrs /\ result = consumeErr
       /\ IsEnd(payload)

\* C14: when the stream answers every read and ends after finitely many
\* records, and the callback returns from every invocation, the call
\* eventually returns; and a call that has returned did so for one of the
\* causes above, never after going through a valid record with the stream
\* still open and the context not cancelled.
C14_ReturnsWhenStreamEnds ==
    /\ <>(pc = "done")
    /\ [](pc = "done" => ReturnCause)
    /\ []((pc = "done" /\ result = NoErr /\ ~ctxCancelled) => BreaksLoop(err))

\* C14 witness: two batches were delivered, then the stream ended and the
\* call returned.
C14_Witness ==
    /\ pc = "done"
    /\ Len(calls) = 2
    /\ err = EOF
    /\ result = NoErr
    /\ Len(recvd) = MaxRecs

\* C15: the stream is opened once, and before anything else: until it is
\* opened nothing has been read and the callback has not been invoked, a
\* read is only ever made on the opened stream, and the opening is never
\* repeated.  When opening fails the call has returned that very error, no
\* read has been made and the callback has not been invoked.
C15_OpensOnceBeforeReading ==
    /\ Len(opens) <= 1
    /\ (pc = "open" <=> opens = <<>>)
    /\ (opens = <<>> => (recvd = <<>> /\ calls = <<>> /\ result = "none"))
    /\ ((pc \in {"loop", "recv", "recvd", "consume"} \/ recvd # <<>>) => opens = <<NoErr>>)
    /\ ((opens # <<>> /\ opens[1] # NoErr)
        => (pc = "done" /\ result = opens[1] /\ recvd = <<>> /\ calls = <<>>))

\* C15 witness: opening the stream failed and the call returned the error.
C15_Witness ==
    /\ opens = <<"status.Unavailable">>
    /\ pc = "done"
    /\ result = "status.Unavailable"
    /\ recvd = <<>>

\* C15, the other case: the stream was opened and two batches were read.
C15_WitnessOpened ==
    /\ opens = <<NoErr>>
    /\ Len(calls) = 2

\* C17: a read that returns with the context already cancelled is dropped.
\* When the context was cancelled outside the callback and the call has
\* returned after at least one read, it returned success whatever the last
\* read brought (a record that would close a batch, a record that breaks the
\* protocol, a transport error); that last read had no effect: the callback
\* was invoked for the END markers before it only, and the accumulator is
\* what the records before it left.
C17_CancelledReadIsDropped ==
    [](
    (pc = "done" /\ cancelAt = "elsewhere" /\ recvd # <<>>)
    => LET n == Len(recvd) - 1
           b == LastBegin(recvd, n)
       IN  /\ result = NoErr
           /\ Len(calls) = NumEnds(SubSeq(recvd, 1, n))
           /\ (update = NilUpdate
               <=> (b = 0 \/ \E q \in (b + 1)..n : IsEnd(recvd[q].payload)))
           /\ (update # NilUpdate
               => /\ update.MilestoneIndex = recvd[b].payload.milestoneIndex
                  /\ update.Consumed = ItemsBetween(recvd, b, n, "Consumed")
                  /\ update.Created = ItemsBetween(recvd, b, n, "Created"))
    )

\* C17 witness: the END marker that would have closed batch 5 arrived with
\* the context cancelled; the batch was not delivered.
C17_Witness ==
    /\ pc = "done"
    /\ cancelAt = "elsewhere"
    /\ payload = BatchMarker("END", 5, 1, 0)
    /\ err = NoErr
    /\ update = [MilestoneIndex |-> 5, Consumed |-> <<"s1">>, Created |-> <<>>]
    /\ calls = <<>>
    /\ result = NoErr

\* C17, second case: a Consumed item outside any batch arrived with the
\* context cancelled; no protocol error was raised.
C17_WitnessViolation ==
    /\ pc = "done"
    /\ cancelAt = "elsewhere"
    /\ recvd = <<Got(ConsumedOp("s1"))>>
    /\ result = NoErr

\* C17, third case: a transport error arrived with the context cancelled;
\* it was not reported.
C17_WitnessTransport ==
    /\ pc = "done"
    /\ cancelAt = "elsewhere"
    /\ err = "status.Unavailable"
    /\ update # NilUpdate
    /\ result = NoErr

\* C18: the counts a BEGIN marker declares have no effect.  What each step
\* of a batch does is fixed by the accumulator and by the record without
\* those counts: a BEGIN taken with no batch open opens one under its index
\* with no items, whatever it declares; an item taken with a batch open is
\* appended, however many items the BEGIN declared; an END taken with a batch
\* open is checked against the END's own counts and index only, and hands the
\* batch to the callback when they agree.
C18_BeginCountsHaveNoEffect ==
    /\ [][(Dispatches /\ IsBegin(payload) /\ update = NilUpdate)
          => /\ update' = [MilestoneIndex |-> payload.milestoneIndex,
                           Consumed |-> <<>>, Created |-> <<>>]
             /\ pc' = "loop" /\ result' = result /\ calls' = calls]_vars
    /\ [][(Dispatches /\ IsConsumed(payload) /\ update # NilUpdate)
          => /\ update' = [update EXCEPT !.Consumed = Append(@, payload.item)]
             /\ pc' = "loop" /\ result' = result /\ calls' = calls]_vars
    /\ [][(Dispatches /\ IsCreated(payload) /\ update # NilUpdate)
          => /\ update' = [update EXCEPT !.Created = Append(@, payload.item)]
             /\ pc' = "loop" /\ result' = result /\ calls' = calls]_vars
    /\ [][(Dispatches /\ IsEnd(payload) /\ update # NilUpdate)
          => IF EndedAbruptly(update, payload)
             THEN pc' = "done" /\ result' = ErrLedgerUpdateEndedAbruptly /\ calls' = calls
             ELSE pc' = "consume" /\ result' = result /\ calls' = Append(calls, update)]_vars

\* C18 witness: the BEGIN marker declared no consumed and no created item,
\* one of each followed, and the END marker declared one of each: the batch
\* was handed to the callback.
C18_Witness ==
    /\ pc = "consume"
    /\ recvd[1] = Got(BatchMarker("BEGIN", 5, 0, 0))
    /\ recvd[Len(recvd)] = Got(BatchMarker("END", 5, 1, 1))
    /\ calls = <<[MilestoneIndex |-> 5, Consumed |-> <<"s1">>, Created |-> <<"o1">>]>>

\* C18, the other way round: the BEGIN marker declared two consumed items,
\* none followed, and the END marker declared none.
C18_WitnessFewer ==
    /\ pc = "consume"
    /\ recvd = <<Got(BatchMarker("BEGIN", 5, 2, 0)), Got(BatchMarker("END", 5, 0, 0))>>
    /\ calls = <<[MilestoneIndex |-> 5, Consumed |-> <<>>, Created |-> <<>>]>>

\* A record the switch has no case for: a marker that is neither BEGIN nor
\* END, or a record without op.
IsOther(r) == ~(IsBegin(r) \/ IsEnd(r) \/ IsConsumed(r) \/ IsCreated(r))

\* C19: a record that is none of BEGIN, END, Consumed, Created is skipped.
\* The step that takes it leaves the accumulator, the callback invocations
\* and the result as they are and goes back to the top of the loop, from
\* where the next thing the call does is the next stream read.
C19_OtherRecordsAreSkipped ==
    /\ [][(Dispatches /\ IsOther(payload))
          => /\ pc' = "loop"
             /\ update' = update
             /\ calls' = calls
             /\ result' = "none"]_vars
    /\ [][(pc = "loop" /\ pc' # "loop") => pc' = "recv"]_vars

\* C19 witness: a marker of unknown type arrived inside batch 5; the batch
\* was then closed and delivered as if the marker had not been there.
C19_Witness ==
    /\ recvd = <<Got(BatchMarker("BEGIN", 5, 0, 0)),
                 Got(BatchMarker("UNKNOWN", 5, 0, 0)),
                 Got(BatchMarker("END", 5, 0, 0))>>
    /\ pc = "consume"
    /\ calls = <<[MilestoneIndex |-> 5, Consumed |-> <<>>, Created |-> <<>>]>>

\* C19, second case: a record without op arrived with no batch open and the
\* loop went on to the next read.
C19_WitnessNoOp ==
    /\ recvd = <<Got(NoOp)>>
    /\ pc = "recv"
    /\ update = NilUpdate
    /\ result = "none"

\* C20: a batch whose number of consumed items, or of created items, is not
\* the count its END marker declares is never handed to the callback: the
\* n-th batch delivered holds as many consumed and as many created items as
\* the n-th END marker read declares.  It fails under WrapSpec: the length
\* is cut to the range of uint32 before it is compared with the count.
C20_MiscountNeverDelivered ==
    /\ Len(calls) <= Len(EndsRead)
    /\ \A n \in 1..Len(calls) :
         /\ Len(calls[n].Consumed) = EndsRead[n].payload.consumedCount
         /\ Len(calls[n].Created) = EndsRead[n].payload.createdCount

\* The case C20 fails on: the callback is running on a batch of Uint32Range
\* consumed items that was closed by an END marker declaring none.
C20_WrappedBatchDelivered ==
    /\ pc = "consume"
    /\ payload = BatchMarker("END", 5, 0, 0)
    /\ update # NilUpdate
    /\ Len(update.Consumed) = Uint32Range
    /\ calls = <<update>>

\* The locals of call c of the pair.
CallState(c) == IF cur = c THEN Locals ELSE peer

\* What a call in state st shows when it runs alone on the reads st.recvd
\* (C2, C13): while the records it went through are consecutive well-formed
\* batches and its context is not cancelled, its callback got those batches
\* in order, its accumulator holds the items since the open BEGIN, and no
\* protocol error is returned.
AsAlone(st) ==
    LET h == st.recvd
        n == IF h # <<>> /\ (st.pc = "recvd" \/ h[Len(h)].err # NoErr)
             THEN Len(h) - 1 ELSE Len(h)
        w == WellFormed(h, n)
    IN  (st.pc # "open" /\ ~st.ctxCancelled /\ w.ok)
        => /\ st.calls = w.batches
           /\ (w.open => st.update = w.cur)
           /\ ((~w.open /\ st.pc \in {"loop", "recv", "recvd"}) => st.update = NilUpdate)
           /\ st.result \notin ProtocolErrs

\* Both calls of the pair show what a call run alone shows.
BothAsAlone == AsAlone(CallState(1)) /\ AsAlone(CallState(2))

\* C16: two calls running at once on different streams are independent.
\* Under every interleaving each call shows what it shows when run alone on
\* its own stream, and no step of one call, nor the passing from one call to
\* the other, changes anything of the other call's state.
C16_ConcurrentCallsIndependent ==
    /\ [](AsAlone(CallState(1)) /\ AsAlone(CallState(2)))
    /\ [][\A c \in {1, 2} :
            (c # cur \/ cur' # cur) => CallState(c)' = CallState(c)]_vars

\* C16 witness: both calls are inside their callbacks at the same moment,
\* call 1 with batch 5 and its one consumed item, call 2 with the empty
\* batch 6.
C16_Witness ==
    /\ CallState(1).pc = "consume"
    /\ CallState(2).pc = "consume"
    /\ CallState(1).calls = <<[MilestoneIndex |-> 5, Consumed |-> <<"s1">>, Created |-> <<>>]>>
    /\ CallState(2).calls = <<[MilestoneIndex |-> 6, Consumed |-> <<>>, Created |-> <<>>]>>

====
